---- MODULE Spec2Model ----
(***************************************************************************)
(* Model of chemberta/utils/raw_text_dataset.py: the file resolver         *)
(* get_data_files, the label cleaner RegressionDataset._clean_property,    *)
(* and the two lazy dataset adapters RawTextDataset and RegressionDataset. *)
(*                                                                         *)
(* Strings are sequences of characters.  Label values are records          *)
(* [kind, val]: None, NaN, +inf, -inf, or a finite number whose val is the *)
(* number in tenths (35 is 3.5).                                           *)
(***************************************************************************)
EXTENDS Integers, Sequences, FiniteSets, TLC

VARIABLES fsCall, cleanCall, adapter, call

vars == <<fsCall, cleanCall, adapter, call>>

(* ------------------------------ bounds -------------------------------- *)
MaxEntries == 2
MaxNum == 50
MaxLines == 2
MaxRows == 1
MaxLabels == 2
MaxLineLen == 1
MaxBlock == 4

(* --------------------------- small helpers ---------------------------- *)
SeqsUpTo(S, n) == UNION {[1..k -> S] : k \in 0..n}

Range(s) == {s[k] : k \in 1..Len(s)}

Injective(s) == \A a, b \in 1..Len(s) : s[a] = s[b] => a = b

(* ------------------------------ values -------------------------------- *)
None == [kind |-> "None", val |-> 0]

NaN == [kind |-> "nan", val |-> 0]

PosInf == [kind |-> "inf", val |-> 0]

NegInf == [kind |-> "-inf", val |-> 0]

Num(n) == [kind |-> "num", val |-> n]

Values == {None, NaN, PosInf, NegInf} \cup {Num(n) : n \in (0 - MaxNum)..MaxNum}

isnan(x) == x.kind = "nan"

isinf(x) == x.kind \in {"inf", "-inf"}

\* _clean_property without the infinity test
Mut_clean_property_keeps_inf(x) ==
    IF x = None \/ isnan(x) THEN Num(0) ELSE x

\* _clean_property without the None test
Mut_clean_property_keeps_none(x) ==
    IF isnan(x) \/ isinf(x) THEN Num(0) ELSE x

\* RegressionDataset._clean_property
_clean_property(x) ==
    IF x = None \/ isnan(x) \/ isinf(x) THEN Num(0) ELSE x

(* ---------------------------- file system ----------------------------- *)
\* Paths handed to the resolver and the adapters; a path is a string.
DirPlain == <<"d", "a", "t", "a">>

DirSlash == <<"d", "a", "t", "a", "/">>

FilePath == <<"f", ".", "t", "x", "t">>

MissingPath == <<"n", "o", "n", "e">>

TrainPaths == {DirPlain, DirSlash, FilePath, MissingPath}

isdir(p) == p \in {DirPlain, DirSlash}

isfile(p) == p = FilePath

\* Entry names os.listdir can report, in any order the file system chooses.
Names == {<<"a">>, <<"b">>, <<"c">>}

Listings == {s \in SeqsUpTo(Names, MaxEntries) : Injective(s)}

\* os.path.join of a directory path and an entry name (the name holds no "/")
join(p, name) ==
    IF p = <<>> THEN name
    ELSE IF p[Len(p)] = "/" THEN p \o name
    ELSE p \o <<"/">> \o name

\* get_data_files returning the bare entry names of a directory
Mut_get_data_files_bare_names(train_path, listdir) ==
    IF isdir(train_path)
    THEN [tag |-> "list", files |-> listdir, path |-> <<>>, error |-> ""]
    ELSE IF isfile(train_path)
    THEN [tag |-> "path", files |-> <<>>, path |-> train_path, error |-> ""]
    ELSE [tag |-> "raise", files |-> <<>>, path |-> <<>>, error |-> "ValueError"]

\* get_data_files wrapping a single file in a list
Mut_get_data_files_wrapped(train_path, listdir) ==
    IF isdir(train_path)
    THEN [tag |-> "list",
          files |-> [k \in 1..Len(listdir) |-> join(train_path, listdir[k])],
          path |-> <<>>, error |-> ""]
    ELSE IF isfile(train_path)
    THEN [tag |-> "list", files |-> <<train_path>>, path |-> <<>>, error |-> ""]
    ELSE [tag |-> "raise", files |-> <<>>, path |-> <<>>, error |-> "ValueError"]

\* get_data_files returning the path whenever it is not a directory
Mut_get_data_files_fallthrough(train_path, listdir) ==
    IF isdir(train_path)
    THEN [tag |-> "list",
          files |-> [k \in 1..Len(listdir) |-> join(train_path, listdir[k])],
          path |-> <<>>, error |-> ""]
    ELSE [tag |-> "path", files |-> <<>>, path |-> train_path, error |-> ""]

\* get_data_files; listdir is what os.listdir(train_path) enumerates
get_data_files(train_path, listdir) ==
    IF isdir(train_path)
    THEN [tag |-> "list",
          files |-> [k \in 1..Len(listdir) |-> join(train_path, listdir[k])],
          path |-> <<>>, error |-> ""]
    ELSE IF isfile(train_path)
    THEN [tag |-> "path", files |-> <<>>, path |-> train_path, error |-> ""]
    ELSE [tag |-> "raise", files |-> <<>>, path |-> <<>>, error |-> "ValueError"]

(* --------------------------- initial state ---------------------------- *)
NoFsCall == [op |-> "none", path |-> <<>>, listdir |-> <<>>,
             ret |-> [tag |-> "none", files |-> <<>>, path |-> <<>>, error |-> ""]]

NoCleanCall == [op |-> "none", x |-> None, ret |-> None]

NoValue == [kind |-> "none", input_ids |-> <<>>, attention_mask |-> <<>>,
            label |-> <<>>, n |-> 0]

NoCall == [op |-> "none", i |-> 0, outcome |-> "none", error |-> "",
           value |-> NoValue, tok |-> <<>>]

NoDataset == [features |-> <<>>, rows |-> <<>>]

NoAdapter == [state |-> "none", cls |-> "", file_path |-> <<>>, block_size |-> 0,
              dataset |-> NoDataset, len |-> 0, smiles_column |-> "",
              label_columns |-> <<>>, num_labels |-> 0, error |-> ""]

Init ==
    /\ fsCall = NoFsCall
    /\ cleanCall = NoCleanCall
    /\ adapter = NoAdapter
    /\ call = NoCall

(* ------------------ the helpers called on their own ------------------- *)
Resolve(path, listdir) ==
    /\ fsCall' = [op |-> "get_data_files", path |-> path,
                  listdir |-> IF isdir(path) THEN listdir ELSE <<>>,
                  ret |-> get_data_files(path, listdir)]
    /\ UNCHANGED <<cleanCall, adapter, call>>

Clean(x) ==
    /\ cleanCall' = [op |-> "_clean_property", x |-> x, ret |-> _clean_property(x)]
    /\ UNCHANGED <<fsCall, adapter, call>>

NextHelpers ==
    \/ \E path \in TrainPaths, listdir \in Listings : Resolve(path, listdir)
    \/ \E x \in Values : Clean(x)

SpecHelpers == Init /\ [][NextHelpers]_vars

(* ----------------------------- tokenizer ------------------------------ *)
\* The tokenizer handle: character-level ids, "<s>" and "</s>" as the special
\* tokens, "<pad>" as padding.  Truncation keeps the special tokens and cuts
\* the text so that the whole sequence fits max_length.
Pad(n) == [k \in 1..n |-> "<pad>"]

Ones(n) == [k \in 1..n |-> 1]

Zeros(n) == [k \in 1..n |-> 0]

Tokenizer(args) ==
    LET specials == IF args.add_special_tokens THEN 2 ELSE 0
        room == IF args.max_length > specials THEN args.max_length - specials ELSE 0
        body == IF args.truncation /\ Len(args.text) > room
                THEN SubSeq(args.text, 1, room) ELSE args.text
        full == IF args.add_special_tokens
                THEN <<"<s>">> \o body \o <<"</s>">> ELSE body
        fill == IF args.padding = "max_length" /\ Len(full) < args.max_length
                THEN args.max_length - Len(full) ELSE 0
    IN  [input_ids |-> full \o Pad(fill),
         attention_mask |-> Ones(Len(full)) \o Zeros(fill)]

(* ------------------------- the lazy sequences ------------------------- *)
Alphabet == {"C", "O"}

Lines == SeqsUpTo(Alphabet, MaxLineLen)

\* load_dataset("text", ...)["train"]: one record {"text": line} per line
TextRecord(l) == [c \in {"text"} |-> l]

TextDatasets ==
    {[features |-> <<"text">>, rows |-> r] :
        r \in SeqsUpTo({TextRecord(l) : l \in Lines}, MaxLines)}

ColNames == <<"smiles", "y1", "y2", "y3", "y4">>

Schema(K) == SubSeq(ColNames, 1, K + 1)

Smiles == <<"C">>

TableCells == {None, NaN, Num(35)}

\* one table row: the text cell and the K label cells, keyed by column name
CsvRecord(K, ls) ==
    [c \in Range(Schema(K)) |->
        IF c = ColNames[1] THEN Smiles
        ELSE ls[(CHOOSE k \in 2..(K + 1) : ColNames[k] = c) - 1]]

\* load_dataset("csv", ...)["train"]: features is the header, in file order
CsvDatasets ==
    UNION {{[features |-> Schema(K), rows |-> r] :
              r \in SeqsUpTo({CsvRecord(K, ls) : ls \in [1..K -> TableCells]}, MaxRows)} :
           K \in 0..MaxLabels}

load_dataset(format) == IF format = "text" THEN TextDatasets ELSE CsvDatasets

\* self.dataset[i]: a negative index counts from the end; anything outside
\* the table raises IndexError
DatasetGetItem(dataset, i) ==
    LET n == Len(dataset.rows)
        key == IF i < 0 THEN n + i ELSE i
    IN  IF key < 0 \/ key >= n
        THEN [raised |-> TRUE, error |-> "IndexError", row |-> <<>>]
        ELSE [raised |-> FALSE, error |-> "", row |-> dataset.rows[key + 1]]

\* str(record) of a one-field text record: {'text': '<line>'}
str(record) == <<"{'text': '">> \o record["text"] \o <<"'}">>

\* torch.tensor of a list of numbers; None has no dtype
torch_tensor(xs) ==
    IF \E k \in 1..Len(xs) : xs[k] = None
    THEN [raised |-> TRUE, error |-> "RuntimeError", data |-> <<>>]
    ELSE [raised |-> FALSE, error |-> "", data |-> xs]

(* ------------------------------ adapters ------------------------------ *)
Blocks == (MaxBlock - 1)..MaxBlock

MaxIndex == IF MaxLines > MaxRows THEN MaxLines ELSE MaxRows

Indices == (0 - (MaxIndex + 1))..MaxIndex

Raise(err, toks) ==
    [outcome |-> "raise", error |-> err, value |-> NoValue, tok |-> toks]

Return(v, toks) ==
    [outcome |-> "return", error |-> "", value |-> v, tok |-> toks]

\* RawTextDataset.preprocess calling the tokenizer without truncation
Mut_RawTextDataset_preprocess_untruncated(self, text) ==
    LET args == [text |-> str(text), add_special_tokens |-> TRUE,
                 truncation |-> FALSE, padding |-> "none",
                 max_length |-> self.block_size]
        batch_encoding == Tokenizer(args)
    IN  Return([NoValue EXCEPT !.kind = "tensor",
                                !.input_ids = batch_encoding.input_ids],
               <<args>>)

\* RawTextDataset.preprocess
RawTextDataset_preprocess(self, text) ==
    LET args == [text |-> str(text), add_special_tokens |-> TRUE,
                 truncation |-> TRUE, padding |-> "none",
                 max_length |-> self.block_size]
        batch_encoding == Tokenizer(args)
    IN  Return([NoValue EXCEPT !.kind = "tensor",
                                !.input_ids = batch_encoding.input_ids],
               <<args>>)

\* RegressionDataset.preprocess
RegressionDataset_preprocess(self, line) ==
    LET args == [text |-> line[self.smiles_column], add_special_tokens |-> TRUE,
                 truncation |-> TRUE, padding |-> "max_length",
                 max_length |-> self.block_size]
        batch_encoding == Tokenizer(args)
        label == torch_tensor([j \in 1..Len(self.label_columns) |->
                                  _clean_property(line[self.label_columns[j]])])
    IN  IF label.raised THEN Raise(label.error, <<args>>)
        ELSE Return([NoValue EXCEPT !.kind = "mapping",
                                    !.input_ids = batch_encoding.input_ids,
                                    !.attention_mask = batch_encoding.attention_mask,
                                    !.label = label.data],
                    <<args>>)

\* __getitem__ swallowing the lazy sequence's error and returning an empty example
Mut_getitem_swallows(self, i) ==
    LET line == DatasetGetItem(self.dataset, i)
    IN  IF line.raised THEN Return([NoValue EXCEPT !.kind = "tensor"], <<>>)
        ELSE IF self.cls = "RawTextDataset"
        THEN RawTextDataset_preprocess(self, line.row)
        ELSE RegressionDataset_preprocess(self, line.row)

\* __getitem__ of either class
__getitem__(self, i) ==
    LET line == DatasetGetItem(self.dataset, i)
    IN  IF line.raised THEN Raise(line.error, <<>>)
        ELSE IF self.cls = "RawTextDataset"
        THEN RawTextDataset_preprocess(self, line.row)
        ELSE RegressionDataset_preprocess(self, line.row)

\* __len__ of either class
__len__(self) == self.len

\* RawTextDataset.__init__ once the files are resolved and loaded
RawTextDataset_init(file_path, block_size, dataset) ==
    [NoAdapter EXCEPT !.state = "ready", !.cls = "RawTextDataset",
                      !.file_path = file_path, !.block_size = block_size,
                      !.dataset = dataset, !.len = Len(dataset.rows)]

\* RegressionDataset.__init__ taking the label columns in reverse order
Mut_RegressionDataset_init_reversed(file_path, block_size, dataset) ==
    LET dataset_columns == dataset.features
        n == Len(dataset_columns)
        label_columns == [j \in 1..(n - 1) |-> dataset_columns[n + 1 - j]]
    IN  [NoAdapter EXCEPT !.state = "ready", !.cls = "RegressionDataset",
                          !.file_path = file_path, !.block_size = block_size,
                          !.dataset = dataset, !.len = Len(dataset.rows),
                          !.smiles_column = dataset_columns[1],
                          !.label_columns = label_columns,
                          !.num_labels = Len(label_columns)]

\* RegressionDataset.__init__ once the files are resolved and loaded
RegressionDataset_init(file_path, block_size, dataset) ==
    LET dataset_columns == dataset.features
        label_columns == SubSeq(dataset_columns, 2, Len(dataset_columns))
    IN  [NoAdapter EXCEPT !.state = "ready", !.cls = "RegressionDataset",
                          !.file_path = file_path, !.block_size = block_size,
                          !.dataset = dataset, !.len = Len(dataset.rows),
                          !.smiles_column = dataset_columns[1],
                          !.label_columns = label_columns,
                          !.num_labels = Len(label_columns)]

\* the constructor fails with whatever get_data_files raised
FailedInit(cls, file_path, block_size, err) ==
    [NoAdapter EXCEPT !.state = "failed", !.cls = cls, !.file_path = file_path,
                      !.block_size = block_size, !.error = err]

\* __init__ of either class: get_data_files, then load_dataset on its result
Construct(cls, file_path, block_size) ==
    /\ adapter.state = "none"
    /\ \E data_files \in {[tag |-> r.tag, error |-> r.error] :
                            r \in {get_data_files(file_path, l) : l \in Listings}} :
         IF data_files.tag = "raise"
         THEN adapter' = FailedInit(cls, file_path, block_size, data_files.error)
         ELSE IF cls = "RawTextDataset"
         THEN \E dataset \in load_dataset("text") :
                adapter' = RawTextDataset_init(file_path, block_size, dataset)
         ELSE \E dataset \in load_dataset("csv") :
                adapter' = RegressionDataset_init(file_path, block_size, dataset)
    /\ call' = NoCall
    /\ UNCHANGED <<fsCall, cleanCall>>

\* a get that counts down the cached length
Mut_GetItem_consumes(i) ==
    /\ adapter.state = "ready"
    /\ LET r == __getitem__(adapter, i)
       IN  call' = [op |-> "get", i |-> i, outcome |-> r.outcome, error |-> r.error,
                    value |-> r.value, tok |-> r.tok]
    /\ adapter' = [adapter EXCEPT !.len = IF @ > 0 THEN @ - 1 ELSE 0]
    /\ UNCHANGED <<fsCall, cleanCall>>

\* __getitem__ called on a constructed adapter
GetItem(i) ==
    /\ adapter.state = "ready"
    /\ LET r == __getitem__(adapter, i)
       IN  call' = [op |-> "get", i |-> i, outcome |-> r.outcome, error |-> r.error,
                    value |-> r.value, tok |-> r.tok]
    /\ UNCHANGED <<fsCall, cleanCall, adapter>>

\* __len__ called on a constructed adapter
Length ==
    /\ adapter.state = "ready"
    /\ call' = [NoCall EXCEPT !.op = "len", !.outcome = "return",
                              !.value = [NoValue EXCEPT !.kind = "int",
                                                        !.n = __len__(adapter)]]
    /\ UNCHANGED <<fsCall, cleanCall, adapter>>

Classes == {"RawTextDataset", "RegressionDataset"}

Next ==
    \/ \E cls \in Classes, file_path \in TrainPaths, block_size \in Blocks :
         Construct(cls, file_path, block_size)
    \/ \E i \in Indices : GetItem(i)
    \/ Length

Spec == Init /\ [][Next]_vars

(* ======================= properties: SpecHelpers ====================== *)
IsFinite(v) == v.kind = "num"

\* C1: clean_label returns 0 for None, NaN, +inf and -inf, and returns every
\* other numeric value unchanged.
C1_CleanLabel ==
    cleanCall.op = "_clean_property" =>
        IF cleanCall.x.kind \in {"None", "nan", "inf", "-inf"}
        THEN cleanCall.ret = Num(0)
        ELSE cleanCall.ret = cleanCall.x

C1_Witness ==
    /\ cleanCall.op = "_clean_property"
    /\ cleanCall.x = NegInf
    /\ cleanCall.ret = Num(0)

\* the path an entry of directory d is expected to have
EntryPath(d, name) ==
    IF d[Len(d)] = "/" THEN d \o name ELSE d \o <<"/">> \o name

\* C3: for a directory, the resolver returns one element per directory entry,
\* each the directory joined with the entry's name, in enumeration order.
C3_DirectoryListing ==
    (fsCall.op = "get_data_files" /\ isdir(fsCall.path)) =>
        /\ fsCall.ret.tag = "list"
        /\ Len(fsCall.ret.files) = Len(fsCall.listdir)
        /\ \A k \in 1..Len(fsCall.listdir) :
             fsCall.ret.files[k] = EntryPath(fsCall.path, fsCall.listdir[k])

C3_Witness ==
    /\ fsCall.op = "get_data_files"
    /\ fsCall.path = DirPlain
    /\ fsCall.listdir = << <<"b">>, <<"a">> >>
    /\ fsCall.ret.files = << <<"d", "a", "t", "a", "/", "b">>,
                             <<"d", "a", "t", "a", "/", "a">> >>

\* C4: for a regular file, the resolver returns the path itself, not a list.
C4_FileIsBarePath ==
    (fsCall.op = "get_data_files" /\ isfile(fsCall.path) /\ ~isdir(fsCall.path)) =>
        /\ fsCall.ret.tag = "path"
        /\ fsCall.ret.path = fsCall.path
        /\ fsCall.ret.files = <<>>

C4_Witness ==
    /\ fsCall.op = "get_data_files"
    /\ fsCall.path = FilePath
    /\ fsCall.ret.tag = "path"
    /\ fsCall.ret.path = FilePath

(* ========================== properties: Spec ========================== *)
IsText == adapter.state = "ready" /\ adapter.cls = "RawTextDataset"

IsRegression == adapter.state = "ready" /\ adapter.cls = "RegressionDataset"

\* the last call was get(i) with 0 <= i < number of records
ValidGet ==
    /\ call.op = "get"
    /\ 0 <= call.i
    /\ call.i < Len(adapter.dataset.rows)

\* the record the last get(i) addressed
FetchedRow == adapter.dataset.rows[call.i + 1]

Cleaned(v) == IF IsFinite(v) THEN v ELSE Num(0)

\* C2: over a table of one text column and K label columns, get(i)["label"]
\* has exactly K entries and entry j is clean_label of row i's value in the
\* j-th label column, in schema order; the first column is never a label.
C2_LabelVector ==
    (IsRegression /\ ValidGet) =>
        LET schema == adapter.dataset.features
            K == Len(schema) - 1
        IN  /\ call.outcome = "return"
            /\ Len(call.value.label) = K
            /\ \A j \in 1..K : call.value.label[j] = Cleaned(FetchedRow[schema[j + 1]])

C2_Witness ==
    /\ IsRegression
    /\ ValidGet
    /\ adapter.dataset.features = <<"smiles", "y1", "y2">>
    /\ FetchedRow["y1"] = Num(35)
    /\ FetchedRow["y2"] = NaN
    /\ call.value.label = <<Num(35), Num(0)>>

\* C5: a path that is neither a directory nor a regular file makes the
\* resolver raise, and constructing either adapter with it fails with that
\* error: no dataset is loaded and no adapter exists.
C5_InvalidPath ==
    (adapter.state # "none" /\ ~isdir(adapter.file_path) /\ ~isfile(adapter.file_path)) =>
        /\ \A l \in Listings :
             /\ get_data_files(adapter.file_path, l).tag = "raise"
             /\ get_data_files(adapter.file_path, l).error = "ValueError"
        /\ adapter.state = "failed"
        /\ adapter.error = "ValueError"
        /\ adapter.dataset = NoDataset
        /\ call = NoCall

C5_Witness ==
    /\ adapter.state = "failed"
    /\ adapter.cls = "RegressionDataset"
    /\ adapter.file_path = MissingPath
    /\ adapter.error = "ValueError"

\* C6: over a corpus of N lines with maximum length L, length() is N and
\* get(i) for 0 <= i < N returns at most L token ids.
C6_TextLengthBound ==
    IsText =>
        /\ adapter.len = Len(adapter.dataset.rows)
        /\ call.op = "len" => call.value.n = Len(adapter.dataset.rows)
        /\ ValidGet =>
             /\ call.outcome = "return"
             /\ Len(call.value.input_ids) <= adapter.block_size

C6_Witness ==
    /\ IsText
    /\ ValidGet
    /\ Len(adapter.dataset.rows) = 2
    /\ Len(call.tok[1].text) + 2 > adapter.block_size
    /\ Len(call.value.input_ids) = adapter.block_size

\* C7: get and length calls leave a constructed adapter unchanged: the
\* recorded count, the schema and the dataset stay as they are, length()
\* returns the recorded count, and the result of get(i) is the one the
\* unchanged adapter gives for i.
C7_CallsLeaveStateUnchanged ==
    [][adapter.state = "ready" =>
         /\ adapter' = adapter
         /\ call'.op = "len" => call'.value.n = adapter.len
         /\ call'.op = "get" =>
              LET r == __getitem__(adapter', call'.i)
              IN  /\ call'.outcome = r.outcome
                  /\ call'.error = r.error
                  /\ call'.value = r.value]_vars

C7_Witness ==
    /\ adapter.state = "ready"
    /\ adapter.len = 1
    /\ adapter.num_labels = 2
    /\ call.op = "get"
    /\ call.i = 1
    /\ call.outcome = "raise"

\* the index is outside the lazy sequence (which counts a negative index
\* from the end)
OutOfBounds(i) ==
    \/ i >= Len(adapter.dataset.rows)
    \/ i < 0 - Len(adapter.dataset.rows)

\* C8: get(i) with an index outside the lazy sequence fails with IndexError:
\* the tokenizer is not invoked and no example is returned.
C8_IndexErrorPropagates ==
    (adapter.state = "ready" /\ call.op = "get" /\ OutOfBounds(call.i)) =>
        /\ call.outcome = "raise"
        /\ call.error = "IndexError"
        /\ call.tok = <<>>
        /\ call.value = NoValue

C8_Witness ==
    /\ IsText
    /\ adapter.len = 1
    /\ call.op = "get"
    /\ call.i = 1
    /\ call.error = "IndexError"
    /\ call.tok = <<>>

\* C9: for the text adapter and a valid i, the string handed to the tokenizer
\* is exactly the text of the i-th line, with special tokens added,
\* truncation enabled and no padding.
C9_TokenizerGetsLine ==
    (IsText /\ ValidGet) =>
        /\ Len(call.tok) = 1
        /\ call.tok[1].text = FetchedRow["text"]
        /\ call.tok[1].add_special_tokens
        /\ call.tok[1].truncation
        /\ call.tok[1].padding = "none"

====
